---------------------------- MODULE Spec2Model ----------------------------
(***************************************************************************)
(* Removal detection of bevy_ecs (crates/bevy_ecs/src/removal_detection.rs)*)
(*                                                                         *)
(* RemovedComponentEvents keeps one double-buffered event feed per         *)
(* ComponentId; RemovedComponents<T> is a per-system view that pairs a     *)
(* private cursor with the feed of T.  The feed primitive (Events), its    *)
(* cursor (EventCursor) and its iterators live in crate::event and are     *)
(* modelled here from the specification's description of them.             *)
(***************************************************************************)
EXTENDS Integers, Sequences, FiniteSets

(* ------------------------------ bounds -------------------------------- *)
\* total number of send() calls in a behaviour
MaxSends == 2

ComponentIds == {"A", "B"}
\* entities are allocated outside this module and are opaque to it: the k-th
\* send of a behaviour carries entity k
Entities == 1..MaxSends
Readers == {"r1", "r2"}

VARIABLES
    event_sets,     \* RemovedComponentEvents.event_sets: present ComponentId -> feed
    component_id,   \* RemovedComponents.component_id of each reader (resolved once)
    reader,         \* RemovedComponents.reader of each reader: its cursor
    iter,           \* the live RemovedIter / RemovedIterWithId of each reader, or None
    out,            \* what the live iterator of each reader has yielded so far,
                    \* each item with the id of the instance it came from
    sent,           \* history: every entry ever sent per ComponentId, in send order
    last_update,    \* history: entries sent per ComponentId before the last update()
    prev_update,    \* history: the same before the update() preceding the last one
    delivered,      \* history: ids every reader was handed by its iterators
    cleared_before, \* history: entries sent to a reader's type before its last clear()
    pace            \* history: "read" when a reader consumed a read() to its end
                    \* since the last update(), "due" when it has not yet,
                    \* "missed" once two update() calls ran without one between

vars == <<event_sets, component_id, reader, iter, out, sent, last_update,
          prev_update, delivered, cleared_before, pace>>

(* ------------------------------ Option -------------------------------- *)
None == <<>>
Some(x) == <<x>>
unwrap(o) == o[1]

(* ------------------- RemovedComponentEntity(Entity) ------------------- *)
\* tuple struct wrapping an entity
RemovedComponentEntity(entity) == [entity |-> entity]
\* #[derive(Into)]: RemovedComponentEntity -> Entity
RemovedComponentEntity_into(wrapped) == wrapped.entity

(* --------------- feed primitive: Events<RemovedComponentEntity> -------- *)
\* an empty feed: two empty generations, ids start at 0
Events_default == [previous |-> <<>>, current |-> <<>>, next_id |-> 0]

\* append(record) -> id: the record joins the current generation
Events_write(events, event) ==
    [events EXCEPT !.current = Append(@, [event |-> event, id |-> events.next_id]),
                   !.next_id = @ + 1]

\* rotate_generations(): oldest dropped, current becomes previous
Events_update(events) ==
    [events EXCEPT !.previous = events.current, !.current = <<>>]

\* the retained instances, oldest first
Events_retained(events) == events.previous \o events.current

(* ------------------------ cursor: EventCursor -------------------------- *)
\* Default: nothing seen yet
EventCursor_default == [last_seen_id |-> None]

\* whether an instance id lies strictly after the cursor
Unseen(cursor, id) ==
    \/ cursor.last_seen_id = None
    \/ id > unwrap(cursor.last_seen_id)

RECURSIVE Filter(_, _)
Filter(seq, cursor) ==
    IF seq = <<>> THEN <<>>
    ELSE IF Unseen(cursor, Head(seq).id)
         THEN <<Head(seq)>> \o Filter(Tail(seq), cursor)
         ELSE Filter(Tail(seq), cursor)

\* read_since(cursor): instances after the cursor in both generations
EventCursor_read_with_id(cursor, events) ==
    Filter(events.previous, cursor) \o Filter(events.current, cursor)

\* count of unread instances
EventCursor_len(cursor, events) ==
    Cardinality({i \in 1..Len(events.previous) : Unseen(cursor, events.previous[i].id)})
    + Cardinality({i \in 1..Len(events.current) : Unseen(cursor, events.current[i].id)})

\* no unread instance
EventCursor_is_empty(cursor, events) ==
    \A i \in 1..Len(Events_retained(events)) :
        ~Unseen(cursor, Events_retained(events)[i].id)

\* advance to the feed's newest id
EventCursor_clear(cursor, events) ==
    IF events.next_id = 0 THEN cursor
    ELSE [cursor EXCEPT !.last_seen_id = Some(events.next_id - 1)]

\* the iterator handing out one instance: the cursor moves to its id
EventIterator_advance(cursor, instance) ==
    [cursor EXCEPT !.last_seen_id = Some(instance.id)]


(* --------------- sparse keyed container: SparseSet --------------------- *)
SparseSet_get(set, key) == IF key \in DOMAIN set THEN Some(set[key]) ELSE None

\* get_or_insert_with(key, factory): the set with key present
SparseSet_get_or_insert_with(set, key, factory) ==
    [k \in DOMAIN set \cup {key} |-> IF k \in DOMAIN set THEN set[k] ELSE factory]

(* ---------------------- RemovedComponentEvents ------------------------- *)
\* RemovedComponentEvents::new: no feed at all
RemovedComponentEvents_new == [k \in {} |-> Events_default]

\* update() that empties every feed instead of rotating it
RemovedComponentEvents_update_clear(sets) ==
    [k \in DOMAIN sets |-> [sets[k] EXCEPT !.previous = <<>>, !.current = <<>>]]

\* update() that rotates only the first feed it iterates over
RemovedComponentEvents_update_first(sets) ==
    [k \in DOMAIN sets |->
        IF k = (CHOOSE first \in DOMAIN sets : TRUE) THEN Events_update(sets[k])
        ELSE sets[k]]

\* update() that also removes the feeds the rotation left empty
RemovedComponentEvents_update_prune(sets) ==
    [k \in {x \in DOMAIN sets : sets[x].current # <<>>} |-> Events_update(sets[k])]

\* update() that rotates only the feeds sent to since the last update()
RemovedComponentEvents_update_touched(sets) ==
    [k \in DOMAIN sets |->
        IF sets[k].current # <<>> THEN Events_update(sets[k]) ELSE sets[k]]

\* update() that opens the new generation with a fresh id counter
RemovedComponentEvents_update_renumber(sets) ==
    [k \in DOMAIN sets |-> [Events_update(sets[k]) EXCEPT !.next_id = 0]]

\* for each present feed: events.update()
RemovedComponentEvents_update(sets) ==
    [k \in DOMAIN sets |-> Events_update(sets[k])]

RemovedComponentEvents_get(sets, id) == SparseSet_get(sets, id)

\* the (ComponentId, feed) pairs iter() goes over
RemovedComponentEvents_iter(sets) == {<<k, sets[k]>> : k \in DOMAIN sets}

\* send() that writes the entry to every feed of the registry
RemovedComponentEvents_send_all(sets, id, entity) ==
    LET inserted == SparseSet_get_or_insert_with(sets, id, Events_default)
    IN  [k \in DOMAIN inserted |-> Events_write(inserted[k], RemovedComponentEntity(entity))]

\* send() that inserts a new feed on every call instead of get_or_insert_with
RemovedComponentEvents_send_insert(sets, id, entity) ==
    [k \in DOMAIN sets \cup {id} |->
        IF k = id THEN Events_write(Events_default, RemovedComponentEntity(entity))
        ELSE sets[k]]

\* get_or_insert_with(id, Default::default).write(RemovedComponentEntity(entity))
RemovedComponentEvents_send(sets, id, entity) ==
    LET inserted == SparseSet_get_or_insert_with(sets, id, Events_default)
    IN  [inserted EXCEPT ![id] = Events_write(@, RemovedComponentEntity(entity))]

(* -------------------------- RemovedComponents -------------------------- *)
\* RemovedComponentReader<T>::default
RemovedComponentReader_default == EventCursor_default

\* events() that takes the first feed of the registry, whatever its component
events_any(r) ==
    IF DOMAIN event_sets = {} THEN None
    ELSE Some(event_sets[CHOOSE first \in DOMAIN event_sets : TRUE])

\* the feed of this reader's component, if any
events(r) == RemovedComponentEvents_get(event_sets, component_id[r])

\* reader_mut_with_events() that takes the first feed of the registry,
\* whatever component it belongs to
reader_mut_with_events_any(r) ==
    IF DOMAIN event_sets = {} THEN None
    ELSE Some(<<reader[r], event_sets[CHOOSE first \in DOMAIN event_sets : TRUE]>>)

\* the reader's own cursor paired with the feed of its component, if any
reader_mut_with_events(r) ==
    LET found == RemovedComponentEvents_get(event_sets, component_id[r])
    IN  IF found = None THEN None ELSE Some(<<reader[r], unwrap(found)>>)

\* fn(RemovedComponentEntity) -> Entity applied to a cloned instance
map_events(instance) == RemovedComponentEntity_into(instance.event)

\* (&RemovedComponentEntity, EventId) -> (Entity, EventId)
map_id_events(instance) == <<RemovedComponentEntity_into(instance.event), instance.id>>

\* read() with a cursor made on the spot instead of the reader's own
RemovedComponents_read_fresh(r) ==
    LET found == reader_mut_with_events(r)
    IN  [chain   |-> IF found = None THEN <<>>
                     ELSE EventCursor_read_with_id(EventCursor_default, unwrap(found)[2]),
         with_id |-> FALSE]

\* the lazy sequence read() returns: nothing consumed yet
RemovedComponents_read(r) ==
    LET found == reader_mut_with_events(r)
    IN  [chain   |-> IF found = None THEN <<>>
                     ELSE EventCursor_read_with_id(unwrap(found)[1], unwrap(found)[2]),
         with_id |-> FALSE]

\* read_with_id() over the current generation only
RemovedComponents_read_with_id_current(r) ==
    LET found == reader_mut_with_events(r)
    IN  [chain   |-> IF found = None THEN <<>>
                     ELSE Filter(unwrap(found)[2].current, unwrap(found)[1]),
         with_id |-> TRUE]

\* the lazy sequence read_with_id() returns
RemovedComponents_read_with_id(r) ==
    LET found == reader_mut_with_events(r)
    IN  [chain   |-> IF found = None THEN <<>>
                     ELSE EventCursor_read_with_id(unwrap(found)[1], unwrap(found)[2]),
         with_id |-> TRUE]

\* what the iterator's next() yields for the instance at its head
RemovedIter_item(it) ==
    IF it.with_id THEN map_id_events(Head(it.chain)) ELSE map_events(Head(it.chain))

\* len() that asks the feed for its length instead of the cursor for its backlog
RemovedComponents_len_total(r) ==
    IF events(r) = None THEN 0 ELSE Len(Events_retained(unwrap(events(r))))

\* events().map(|events| reader.len(events)).unwrap_or(0)
RemovedComponents_len(r) ==
    IF events(r) = None THEN 0 ELSE EventCursor_len(reader[r], unwrap(events(r)))

\* is_empty() written with is_some_and instead of is_none_or
RemovedComponents_is_empty_some_and(r) ==
    IF events(r) = None THEN FALSE ELSE EventCursor_is_empty(reader[r], unwrap(events(r)))

\* events().is_none_or(|events| reader.is_empty(events))
RemovedComponents_is_empty(r) ==
    IF events(r) = None THEN TRUE ELSE EventCursor_is_empty(reader[r], unwrap(events(r)))

\* clear() that finds the feed and then leaves the cursor alone
RemovedComponents_clear_noop(r) == reader[r]

\* clear() that puts a default cursor in the reader's place
RemovedComponents_clear_reset(r) ==
    LET found == reader_mut_with_events(r)
    IN  IF found = None THEN reader[r] ELSE EventCursor_default

\* the cursor after clear()
RemovedComponents_clear(r) ==
    LET found == reader_mut_with_events(r)
    IN  IF found = None THEN reader[r]
        ELSE EventCursor_clear(unwrap(found)[1], unwrap(found)[2])

(* ------------------------------ history -------------------------------- *)
RECURSIVE TotalSent(_)
TotalSent(ids) ==
    IF ids = {} THEN 0
    ELSE LET c == CHOOSE x \in ids : TRUE
         IN  Len(sent[c]) + TotalSent(ids \ {c})

\* &mut access to the registry: no iterator borrows it
NoLiveIter == \A r \in Readers : iter[r] = None

(* ------------------------------- Init ---------------------------------- *)
\* an empty registry and two systems with a default reader each; the first
\* reads component A, the second A or B
Init ==
    /\ event_sets = RemovedComponentEvents_new
    /\ component_id \in {f \in [Readers -> ComponentIds] : f["r1"] = "A"}
    /\ reader = [r \in Readers |-> RemovedComponentReader_default]
    /\ iter = [r \in Readers |-> None]
    /\ out = [r \in Readers |-> <<>>]
    /\ sent = [c \in ComponentIds |-> <<>>]
    /\ last_update = [c \in ComponentIds |-> 0]
    /\ prev_update = [c \in ComponentIds |-> 0]
    /\ delivered = [r \in Readers |-> {}]
    /\ cleared_before = [r \in Readers |-> 0]
    /\ pace = [r \in Readers |-> "read"]

\* pace of reader r once its iterator is it: a RemovedIter with nothing left
\* to yield is a read() consumed to its end
Paced(r, it) ==
    IF ~it.with_id /\ it.chain = <<>> /\ pace[r] = "due"
    THEN [pace EXCEPT ![r] = "read"]
    ELSE pace

(* ------------------------------ actions -------------------------------- *)
\* send() and update() take &mut self: they run only while no iterator, which
\* borrows the registry, is alive.  The consumer operations take &self or
\* &mut self of one RemovedComponents: they run only while that reader's own
\* iterator, which borrows it mutably, is gone.
send(id, entity) ==
    /\ NoLiveIter
    /\ TotalSent(ComponentIds) < MaxSends
    /\ entity = TotalSent(ComponentIds) + 1
    /\ event_sets' = RemovedComponentEvents_send(event_sets, id, entity)
    /\ sent' = [sent EXCEPT ![id] = Append(@, [entity |-> entity, id |-> Len(@)])]
    /\ UNCHANGED <<component_id, reader, iter, out, last_update, prev_update,
                   delivered, cleared_before, pace>>

update ==
    /\ NoLiveIter
    /\ event_sets' = RemovedComponentEvents_update(event_sets)
    /\ prev_update' = last_update
    /\ last_update' = [c \in ComponentIds |-> Len(sent[c])]
    /\ pace' = [r \in Readers |-> IF pace[r] = "read" THEN "due" ELSE "missed"]
    /\ UNCHANGED <<component_id, reader, iter, out, sent, delivered, cleared_before>>

\* read() that moves the cursor to the newest id when the sequence is made
read_eager(r) ==
    /\ iter[r] = None
    /\ iter' = [iter EXCEPT ![r] = Some(RemovedComponents_read(r))]
    /\ pace' = Paced(r, RemovedComponents_read(r))
    /\ reader' = [reader EXCEPT ![r] = RemovedComponents_clear(r)]
    /\ out' = [out EXCEPT ![r] = <<>>]
    /\ UNCHANGED <<event_sets, component_id, sent, last_update, prev_update,
                   delivered, cleared_before>>

read(r) ==
    /\ iter[r] = None
    /\ iter' = [iter EXCEPT ![r] = Some(RemovedComponents_read(r))]
    /\ pace' = Paced(r, RemovedComponents_read(r))
    /\ out' = [out EXCEPT ![r] = <<>>]
    /\ UNCHANGED <<event_sets, component_id, reader, sent, last_update, prev_update,
                   delivered, cleared_before>>

read_with_id(r) ==
    /\ iter[r] = None
    /\ iter' = [iter EXCEPT ![r] = Some(RemovedComponents_read_with_id(r))]
    /\ out' = [out EXCEPT ![r] = <<>>]
    /\ UNCHANGED <<event_sets, component_id, reader, sent, last_update, prev_update,
                   delivered, cleared_before, pace>>

\* the caller takes one item from the live iterator
next(r) ==
    /\ iter[r] # None
    /\ unwrap(iter[r]).chain # <<>>
    /\ LET it == unwrap(iter[r])
       IN  /\ out' = [out EXCEPT ![r] =
                      Append(@, [item |-> RemovedIter_item(it), id |-> Head(it.chain).id])]
           /\ reader' = [reader EXCEPT ![r] = EventIterator_advance(@, Head(it.chain))]
           /\ iter' = [iter EXCEPT ![r] = Some([it EXCEPT !.chain = Tail(@)])]
           /\ delivered' = [delivered EXCEPT ![r] = @ \cup {Head(it.chain).id}]
           /\ pace' = Paced(r, [it EXCEPT !.chain = Tail(@)])
    /\ UNCHANGED <<event_sets, component_id, sent, last_update, prev_update,
                   cleared_before>>

\* the caller lets go of the iterator, exhausted or not
drop(r) ==
    /\ iter[r] # None
    /\ iter' = [iter EXCEPT ![r] = None]
    /\ out' = [out EXCEPT ![r] = <<>>]
    /\ UNCHANGED <<event_sets, component_id, reader, sent, last_update, prev_update,
                   delivered, cleared_before, pace>>

len(r) ==
    /\ iter[r] = None
    /\ RemovedComponents_len(r) \in Nat
    /\ UNCHANGED vars

is_empty(r) ==
    /\ iter[r] = None
    /\ RemovedComponents_is_empty(r) \in BOOLEAN
    /\ UNCHANGED vars

\* clear() on a cursor kept per component type instead of per reader
clear_shared(r) ==
    /\ iter[r] = None
    /\ reader' = [q \in Readers |->
                     IF component_id[q] = component_id[r] /\ iter[q] = None
                     THEN RemovedComponents_clear(q) ELSE reader[q]]
    /\ cleared_before' = [cleared_before EXCEPT ![r] = Len(sent[component_id[r]])]
    /\ UNCHANGED <<event_sets, component_id, iter, out, sent, last_update, prev_update,
                   delivered, pace>>

clear(r) ==
    /\ iter[r] = None
    /\ reader' = [reader EXCEPT ![r] = RemovedComponents_clear(r)]
    /\ cleared_before' = [cleared_before EXCEPT ![r] = Len(sent[component_id[r]])]
    /\ UNCHANGED <<event_sets, component_id, iter, out, sent, last_update, prev_update,
                   delivered, pace>>

\* get() and iter() take &self and hand out shared references
get(id) ==
    /\ RemovedComponentEvents_get(event_sets, id) \in {None} \cup {Some(event_sets[k]) : k \in DOMAIN event_sets}
    /\ UNCHANGED vars

iter_sets ==
    /\ RemovedComponentEvents_iter(event_sets) \subseteq (ComponentIds \X {event_sets[k] : k \in DOMAIN event_sets})
    /\ UNCHANGED vars

Next ==
    \/ \E id \in ComponentIds, entity \in Entities : send(id, entity)
    \/ update
    \/ \E r \in Readers : read(r)
    \/ \E r \in Readers : read_with_id(r)
    \/ \E r \in Readers : next(r)
    \/ \E r \in Readers : drop(r)
    \/ \E r \in Readers : len(r)
    \/ \E r \in Readers : is_empty(r)
    \/ \E r \in Readers : clear(r)
    \/ \E id \in ComponentIds : get(id)
    \/ iter_sets

Spec == Init /\ [][Next]_vars

(* ======================= vocabulary of the claims ======================= *)
Type(r) == component_id[r]
Live(r) == iter[r] # None
Chain(r) == unwrap(iter[r]).chain
\* the live iterator has handed out everything it had
FullyConsumed(r) == Live(r) /\ Chain(r) = <<>>
Items(seq) == [i \in 1..Len(seq) |-> seq[i].item]
Ids(seq) == [i \in 1..Len(seq) |-> seq[i].id]
EntitiesOf(seq) == [i \in 1..Len(seq) |-> seq[i].entity]
\* ids handed out by the live iterator of r
ThisRead(r) == {out[r][i].id : i \in 1..Len(out[r])}
\* ids r had been handed before its live iterator was made
DeliveredBefore(r) == delivered[r] \ ThisRead(r)
\* entries of type c sent since the update() preceding the last one
Retained(c) == SubSeq(sent[c], prev_update[c] + 1, Len(sent[c]))
\* entries of r's type sent before r's last clear() were discarded by it
Discarded(r, e) == e.id < cleared_before[r]

(* ------------------------------- C1 ------------------------------------ *)
\* C1 as stated: a fully consumed read() yields exactly the retained entries
\* of the reader's type that were not yet delivered to that reader, in the
\* order they were sent.
C1_Original ==
    \A r \in Readers :
        (FullyConsumed(r) /\ ~unwrap(iter[r]).with_id) =>
            Items(out[r]) = EntitiesOf(SelectSeq(Retained(Type(r)),
                                LAMBDA e : e.id \notin DeliveredBefore(r)))

\* C1 amended: a fully consumed read() yields exactly the retained entries of
\* the reader's type that were neither delivered to that reader before nor
\* discarded by a clear() of that reader, in the order they were sent.
C1_ReadYieldsUnread ==
    \A r \in Readers :
        (FullyConsumed(r) /\ ~unwrap(iter[r]).with_id) =>
            Items(out[r]) = EntitiesOf(SelectSeq(Retained(Type(r)),
                                LAMBDA e : /\ e.id \notin DeliveredBefore(r)
                                           /\ ~Discarded(r, e)))

\* a fresh reader has read [e1, e2] after two sends and no update()
C1_Witness ==
    \E r \in Readers :
        /\ FullyConsumed(r) /\ ~unwrap(iter[r]).with_id
        /\ DeliveredBefore(r) = {} /\ cleared_before[r] = 0
        /\ Len(sent[Type(r)]) = 2 /\ last_update[Type(r)] = 0
        /\ Items(out[r]) = <<sent[Type(r)][1].entity, sent[Type(r)][2].entity>>

(* ------------------------------- C2 ------------------------------------ *)
\* C2: a single update() never drops an unread entry: once a reader has fully
\* consumed a read sequence, every entry of its type sent since the update()
\* preceding the last one (so with at most one update() after it) that the
\* reader did not discard has been delivered to it, and the sequence handed
\* the entries out in send order, the burst before the update() first.
C2_OneUpdateKeepsUnread ==
    \A r \in Readers :
        FullyConsumed(r) =>
            /\ \A i \in 1..Len(sent[Type(r)]) :
                   (i > prev_update[Type(r)] /\ ~Discarded(r, sent[Type(r)][i]))
                       => sent[Type(r)][i].id \in delivered[r]
            /\ \A j, k \in 1..Len(out[r]) : j < k => out[r][j].id < out[r][k].id

\* one fully consumed read handed out an entry sent before the only update()
\* and then an entry sent after it
C2_Witness ==
    \E r \in Readers :
        /\ FullyConsumed(r)
        /\ Len(out[r]) = 2
        /\ prev_update[Type(r)] = 0
        /\ last_update[Type(r)] = 1
        /\ out[r][1].id < last_update[Type(r)]
        /\ out[r][2].id >= last_update[Type(r)]

(* ------------------------------- C3 ------------------------------------ *)
\* C3: entries expire after two update() calls: no read sequence holds or
\* hands out an entry sent before the update() preceding the last one, a
\* sequence made when nothing was sent since then is empty, and no feed of
\* the registry retains such an entry.
C3_TwoUpdatesExpire ==
    /\ \A r \in Readers :
           Live(r) =>
               /\ \A i \in 1..Len(out[r]) : out[r][i].id >= prev_update[Type(r)]
               /\ \A i \in 1..Len(Chain(r)) : Chain(r)[i].id >= prev_update[Type(r)]
               /\ (prev_update[Type(r)] = Len(sent[Type(r)])
                       => (out[r] = <<>> /\ Chain(r) = <<>>))
    /\ \A c \in DOMAIN event_sets :
           \A i \in 1..Len(Events_retained(event_sets[c])) :
               Events_retained(event_sets[c])[i].id >= prev_update[c]

\* a reader that never read the entry of its type reads after two update()
\* calls and gets nothing, while another feed went through the same
C3_Witness ==
    \E r \in Readers :
        /\ FullyConsumed(r) /\ out[r] = <<>>
        /\ delivered[r] = {} /\ cleared_before[r] = 0
        /\ Len(sent[Type(r)]) = 1 /\ prev_update[Type(r)] = 1
        /\ \E c \in DOMAIN event_sets :
               c # Type(r) /\ Len(sent[c]) = 1 /\ prev_update[c] = 1

(* ------------------------------- C4 ------------------------------------ *)
\* C4: a reader never observes an entry sent for another type: every entity
\* a read sequence hands out or still holds was sent with the reader's own
\* component id, and a send to another type changes neither len() nor
\* is_empty() of the reader.
C4_Observed(r) ==
    Live(r) =>
        /\ \A i \in 1..Len(out[r]) :
               \E k \in 1..Len(sent[Type(r)]) :
                   /\ sent[Type(r)][k].id = out[r][i].id
                   /\ out[r][i].item =
                          IF unwrap(iter[r]).with_id
                          THEN <<sent[Type(r)][k].entity, sent[Type(r)][k].id>>
                          ELSE sent[Type(r)][k].entity
        /\ \A i \in 1..Len(Chain(r)) :
               \E k \in 1..Len(sent[Type(r)]) :
                   /\ sent[Type(r)][k].id = Chain(r)[i].id
                   /\ sent[Type(r)][k].entity = Chain(r)[i].event.entity

C4_OtherSend(r) ==
    (\E c \in ComponentIds : c # Type(r) /\ sent'[c] # sent[c]) =>
        /\ RemovedComponents_len(r)' = RemovedComponents_len(r)
        /\ RemovedComponents_is_empty(r)' = RemovedComponents_is_empty(r)

\* C4: in every state every reader has observed only entries of its own
\* type, and no send to another type changes its len() or is_empty().
C4_TypeIsolation ==
    /\ [](\A r \in Readers : C4_Observed(r) /\ (out[r] # <<>> => Live(r)))
    /\ [][\A r \in Readers : C4_OtherSend(r)]_vars

\* a reader of B was handed an entity while A's feed holds entries too
C4_Witness ==
    \E r \in Readers :
        /\ Type(r) = "B"
        /\ Len(out[r]) >= 1
        /\ Len(sent["A"]) >= 1
        /\ "A" \in DOMAIN event_sets

C6_ClearDiscards ==
    \A r \in Readers :
        /\ Live(r) =>
               /\ \A i \in 1..Len(out[r]) : out[r][i].id >= cleared_before[r]
               /\ \A i \in 1..Len(Chain(r)) : Chain(r)[i].id >= cleared_before[r]
        /\ Len(sent[Type(r)]) = cleared_before[r] => RemovedComponents_is_empty(r)

\* a reader cleared an entry it had never been handed and that is still
\* retained, and then read the one entry sent after the clear()
C6_Witness ==
    \E r \in Readers :
        /\ cleared_before[r] >= 1
        /\ prev_update[Type(r)] < cleared_before[r]
        /\ DeliveredBefore(r) = {}
        /\ FullyConsumed(r)
        /\ Len(out[r]) = 1

(* ------------------------------- C7 ------------------------------------ *)
\* C7: readers are independent: a step of one reader (making a sequence,
\* taking an item, dropping it, len, is_empty, clear) changes neither the
\* registry nor anything of another reader, and a reader that has read and
\* cleared nothing obtains every retained entry of its type from a full read,
\* whatever the other readers have read or cleared.
C7_Step(r) ==
    \/ read(r) \/ read_with_id(r) \/ next(r) \/ drop(r)
    \/ len(r) \/ is_empty(r) \/ clear(r)

C7_Frame(r) ==
    C7_Step(r) =>
        /\ event_sets' = event_sets
        /\ \A q \in Readers \ {r} :
               /\ reader'[q] = reader[q]
               /\ iter'[q] = iter[q]
               /\ out'[q] = out[q]

C7_FreshSeesAll ==
    \A q \in Readers :
        (FullyConsumed(q) /\ DeliveredBefore(q) = {} /\ cleared_before[q] = 0) =>
            Ids(out[q]) = Ids(Retained(Type(q)))

\* C7: a fresh reader always reads all retained entries, and no step of one
\* reader changes the registry or another reader.
C7_ReadersIndependent ==
    /\ []C7_FreshSeesAll
    /\ [][\A r \in Readers : C7_Frame(r)]_vars

\* one reader cleared two entries; another reader of the same type, fresh
\* until then, has read both
C7_Witness ==
    \E r, q \in Readers :
        /\ r # q /\ Type(r) = Type(q)
        /\ cleared_before[r] = 2 /\ delivered[r] = {}
        /\ FullyConsumed(q) /\ DeliveredBefore(q) = {} /\ cleared_before[q] = 0
        /\ Len(out[q]) = 2

(* ------------------------------- C8 ------------------------------------ *)
\* C8: when a reader has fully consumed a read sequence, is_empty() is true
\* and len() is 0 for it, and every step other than a send for the reader's
\* type keeps them so.
C8_EmptyNow ==
    \A r \in Readers :
        FullyConsumed(r) => (RemovedComponents_is_empty(r) /\ RemovedComponents_len(r) = 0)

C8_EmptyStays(r) ==
    (RemovedComponents_is_empty(r) /\ sent'[Type(r)] = sent[Type(r)]) =>
        (RemovedComponents_is_empty(r)' /\ RemovedComponents_len(r)' = 0)

\* C8: empty after a full read, and empty until the next send for the type.
C8_EmptyUntilSend ==
    /\ []C8_EmptyNow
    /\ [][\A r \in Readers : C8_EmptyStays(r)]_vars

\* a reader has read the entry of its type; since then update() ran and
\* another type was sent to, and the reader is still empty
C8_Witness ==
    \E r \in Readers :
        /\ ~Live(r)
        /\ delivered[r] = {0}
        /\ Len(sent[Type(r)]) = 1 /\ last_update[Type(r)] = 1
        /\ \E c \in ComponentIds \ {Type(r)} : Len(sent[c]) = 1 /\ last_update[c] = 0
        /\ RemovedComponents_is_empty(r)

(* ------------------------------- C9 ------------------------------------ *)
\* C9: len() equals the number of entries a read() started in the same state
\* would yield, which is the number of retained entries of the reader's type
\* neither delivered to it nor discarded by it; it is 0 when the feed is
\* absent, and calling it changes nothing.
C9_LenNow ==
    \A r \in Readers :
        /\ RemovedComponents_len(r) = Len(RemovedComponents_read(r).chain)
        /\ RemovedComponents_len(r) =
               Cardinality({i \in (prev_update[Type(r)] + 1)..Len(sent[Type(r)]) :
                               /\ sent[Type(r)][i].id \notin delivered[r]
                               /\ ~Discarded(r, sent[Type(r)][i])})
        /\ Type(r) \notin DOMAIN event_sets => RemovedComponents_len(r) = 0

\* C9: len() is the length of a read() made in the same state, and calling
\* len() changes nothing.
C9_LenCountsUnread ==
    /\ []C9_LenNow
    /\ [][\A r \in Readers : len(r) => UNCHANGED <<event_sets, reader, iter, out>>]_vars

\* two entries were sent, update() ran twice after them, and a reader that
\* never read or cleared has len() = 0
C9_Witness ==
    \E r \in Readers :
        /\ ~Live(r)
        /\ delivered[r] = {} /\ cleared_before[r] = 0
        /\ Len(sent[Type(r)]) = 2 /\ prev_update[Type(r)] = 2
        /\ RemovedComponents_len(r) = 0

(* ------------------------------- C10 ----------------------------------- *)
\* C10: is_empty() is true exactly when len() is 0, also while the feed is
\* absent, and calling is_empty() changes nothing.
C10_EmptyIffLenZero ==
    /\ [](\A r \in Readers :
             RemovedComponents_is_empty(r) <=> (RemovedComponents_len(r) = 0))
    /\ [][\A r \in Readers :
             is_empty(r) => UNCHANGED <<event_sets, reader, iter, out>>]_vars

\* one reader's feed is absent and it is empty, another has a backlog
C10_Witness ==
    \E r, q \in Readers :
        /\ Type(r) \notin DOMAIN event_sets
        /\ RemovedComponents_is_empty(r) /\ RemovedComponents_len(r) = 0
        /\ ~RemovedComponents_is_empty(q) /\ RemovedComponents_len(q) = 2

(* ------------------------------- C11 ----------------------------------- *)
\* C11: while the feed of a reader's type is absent, read() and
\* read_with_id() give an empty sequence, len() is 0, is_empty() is true and
\* clear() keeps the cursor, no consumer step moves the cursor, and once the
\* first entry of that type is sent the reader, which was handed and has
\* discarded nothing, finds it in a read().
C11_Absent(r) ==
    Type(r) \notin DOMAIN event_sets =>
        /\ RemovedComponents_read(r).chain = <<>>
        /\ RemovedComponents_read_with_id(r).chain = <<>>
        /\ RemovedComponents_len(r) = 0
        /\ RemovedComponents_is_empty(r)
        /\ RemovedComponents_clear(r) = reader[r]
        /\ Live(r) => (Chain(r) = <<>> /\ out[r] = <<>>)

C11_FirstSend(r) ==
    (Len(sent[Type(r)]) = 1 /\ prev_update[Type(r)] = 0
        /\ delivered[r] = {} /\ cleared_before[r] = 0 /\ ~Live(r)) =>
            /\ Len(RemovedComponents_read(r).chain) = 1
            /\ map_events(RemovedComponents_read(r).chain[1]) = sent[Type(r)][1].entity

C11_AbsentStep(r) ==
    (Type(r) \notin DOMAIN event_sets /\ C7_Step(r)) => reader'[r] = reader[r]

\* C11: an absent feed reads as an empty one, and the first send() for the
\* type makes its entry visible to the reader
C11_AbsentFeedTolerated ==
    /\ [](\A r \in Readers : C11_Absent(r) /\ C11_FirstSend(r))
    /\ [][\A r \in Readers : C11_AbsentStep(r)]_vars

\* a reader has made a sequence while its feed is absent and another type's
\* feed holds an entry
C11_Witness ==
    \E r \in Readers :
        /\ Type(r) \notin DOMAIN event_sets
        /\ FullyConsumed(r) /\ out[r] = <<>>
        /\ \E c \in DOMAIN event_sets : Len(event_sets[c].current) = 1

(* ------------------------------- C12 ----------------------------------- *)
\* C12: get(id) returns a feed exactly when send(id, _) was called at least
\* once; no step removes a feed and only a send adds one.
C12_KeysNow ==
    \A c \in ComponentIds :
        (RemovedComponentEvents_get(event_sets, c) # None) <=> (Len(sent[c]) >= 1)

C12_KeysStep ==
    /\ DOMAIN event_sets \subseteq DOMAIN event_sets'
    /\ \A c \in DOMAIN event_sets' \ DOMAIN event_sets : Len(sent'[c]) = Len(sent[c]) + 1

\* C12: the registry holds a feed for exactly the types sent to, and a key
\* once present stays
C12_KeysGrowLazily ==
    /\ []C12_KeysNow
    /\ [][C12_KeysStep]_vars

\* a feed that was sent to once is still there, empty, after two update()
\* calls, and the other type's feed is still absent
C12_Witness ==
    \E c \in DOMAIN event_sets :
        /\ prev_update[c] = 1
        /\ Events_retained(event_sets[c]) = <<>>
        /\ DOMAIN event_sets = {c}
        /\ \E r \in Readers : Live(r)

(* ------------------------------- C13 ----------------------------------- *)
\* everything a sequence would yield if it were consumed to its end
Yields(it) == [i \in 1..Len(it.chain) |-> RemovedIter_item([it EXCEPT !.chain = <<it.chain[i]>>])]

\* C13: in every state read_with_id() would yield the entities read() would
\* yield, in the same order, each paired with the id its entry was sent
\* under; and a read_with_id() sequence that has handed out items has moved
\* the cursor to the last of them, from where a read() would go on with what
\* the sequence still holds.
C13_SameSequence(r) ==
    LET plain == Yields(RemovedComponents_read(r))
        with  == Yields(RemovedComponents_read_with_id(r))
    IN  /\ Len(with) = Len(plain)
        /\ \A i \in 1..Len(with) :
               /\ with[i][1] = plain[i]
               /\ with[i][2] + 1 \in 1..Len(sent[Type(r)])
               /\ sent[Type(r)][with[i][2] + 1].entity = plain[i]

C13_SameCursor(r) ==
    (Live(r) /\ unwrap(iter[r]).with_id) =>
        /\ \A i \in 1..Len(out[r]) : out[r][i].item[2] = out[r][i].id
        /\ out[r] # <<>> => reader[r].last_seen_id = Some(out[r][Len(out[r])].item[2])
        /\ RemovedComponents_read(r).chain = Chain(r)

\* C13: read_with_id() yields what read() yields, each entity paired with
\* its id, and moves the cursor the same way
C13_ReadWithIdMatchesRead ==
    \A r \in Readers : C13_SameSequence(r) /\ C13_SameCursor(r)

\* a read_with_id() sequence over an entry of each generation, one taken
C13_Witness ==
    \E r \in Readers :
        /\ Live(r) /\ unwrap(iter[r]).with_id
        /\ Len(out[r]) = 1 /\ Len(Chain(r)) = 1
        /\ last_update[Type(r)] = 1 /\ prev_update[Type(r)] = 0

(* ------------------------------- C14 ----------------------------------- *)
\* C14: no entry is delivered twice to one reader: whenever a sequence of a
\* reader hands out an item, the reader was never handed that entry before.
C14_Step(r) ==
    Len(out'[r]) = Len(out[r]) + 1 =>
        /\ out'[r][Len(out'[r])].id \notin delivered[r]
        /\ delivered'[r] = delivered[r] \cup {out'[r][Len(out'[r])].id}

\* C14: every item a sequence hands to a reader has an id the reader was
\* not handed before
C14_NoRedelivery == [][\A r \in Readers : C14_Step(r)]_vars

\* a reader was handed entry 0 by one sequence and, after an update() that
\* keeps entry 0 retained, entry 1 alone by a later sequence
C14_Witness ==
    \E r \in Readers :
        /\ FullyConsumed(r)
        /\ delivered[r] = {0, 1}
        /\ Ids(out[r]) = <<1>>
        /\ last_update[Type(r)] = 1 /\ prev_update[Type(r)] = 0

(* ------------------------------- C15 ----------------------------------- *)
\* the cursor as a number: one more than the last seen id, 0 when none
CursorCount(cursor) ==
    IF cursor.last_seen_id = None THEN 0 ELSE unwrap(cursor.last_seen_id) + 1

\* C15: making a read sequence and dropping it leave the cursor as it is,
\* so a read that produces nothing, or runs while the feed is absent, does
\* not change the cursor; every item produced puts the cursor on that
\* item's id, which is the highest id produced so far.
C15_Step(r) ==
    /\ (read(r) \/ read_with_id(r) \/ drop(r)) => reader'[r] = reader[r]
    /\ next(r) =>
           /\ reader'[r].last_seen_id = Some(out'[r][Len(out'[r])].id)
           /\ \A i \in 1..Len(out'[r]) : out'[r][i].id <= unwrap(reader'[r].last_seen_id)
    /\ (next(r) /\ Type(r) \notin DOMAIN event_sets) => FALSE

C16_CursorForward ==
    /\ [](\A r \in Readers : CursorCount(reader[r]) <= Len(sent[Type(r)]))
    /\ [][\A r \in Readers : CursorCount(reader'[r]) >= CursorCount(reader[r])]_vars

\* a cursor that has reached the second entry of its type by a clear()
\* after reading the first
C16_Witness ==
    \E r \in Readers :
        /\ CursorCount(reader[r]) = 2
        /\ delivered[r] = {0}
        /\ cleared_before[r] = 2

(* ------------------------------- C17 ----------------------------------- *)
\* a generation of a feed as the entries it holds
Generation(instances) ==
    [i \in 1..Len(instances) |-> [entity |-> instances[i].event.entity, id |-> instances[i].id]]

\* C17: every feed holds exactly the entries sent to it since the update()
\* preceding the last one: in its previous generation those sent between the
\* last two update() calls, in its current generation those sent since the
\* last update(); this holds for every present feed, sent to or not.
C17_TwoGenerations ==
    \A c \in DOMAIN event_sets :
        /\ Generation(event_sets[c].previous) = SubSeq(sent[c], prev_update[c] + 1, last_update[c])
        /\ Generation(event_sets[c].current) = SubSeq(sent[c], last_update[c] + 1, Len(sent[c]))

\* one feed holds its entry in the previous generation after an update(),
\* another, not sent to in between, has lost its entry to two update() calls
C17_Witness ==
    \E c, d \in DOMAIN event_sets :
        /\ Len(event_sets[c].previous) = 1 /\ event_sets[c].current = <<>>
        /\ Len(sent[d]) = 1 /\ prev_update[d] = 1
        /\ Events_retained(event_sets[d]) = <<>>

(* ------------------------------- C18 ----------------------------------- *)
\* C18: send(A, e) is defined in every state and appends one entry carrying
\* e at the end of the current generation of A's feed, made empty first if
\* absent; it leaves the other feeds, the entries A's feed already holds and
\* every cursor as they are; and no other step adds an entry to a feed.
C18_SendNow ==
    \A c \in ComponentIds, e \in Entities :
        LET after == RemovedComponentEvents_send(event_sets, c, e)
            before == IF c \in DOMAIN event_sets THEN event_sets[c] ELSE Events_default
        IN  /\ DOMAIN after = DOMAIN event_sets \cup {c}
            /\ after[c].previous = before.previous
            /\ Len(after[c].current) = Len(before.current) + 1
            /\ SubSeq(after[c].current, 1, Len(before.current)) = before.current
            /\ after[c].current[Len(after[c].current)].event = RemovedComponentEntity(e)
            /\ \A k \in DOMAIN event_sets \ {c} : after[k] = event_sets[k]

C18_Count(sets, c) == IF c \in DOMAIN sets THEN Len(Events_retained(sets[c])) ELSE 0

C18_Step ==
    /\ (\E c \in ComponentIds, e \in Entities : send(c, e)) =>
           /\ reader' = reader
           /\ \E c \in ComponentIds :
                  /\ C18_Count(event_sets', c) = C18_Count(event_sets, c) + 1
                  /\ \A k \in ComponentIds \ {c} :
                         C18_Count(event_sets', k) = C18_Count(event_sets, k)
    /\ (sent' = sent) =>
           \A c \in ComponentIds : C18_Count(event_sets', c) <= C18_Count(event_sets, c)

\* C18: send() appends one entry to one feed and nothing else adds entries
C18_SendAppendsOne ==
    /\ []C18_SendNow
    /\ [][C18_Step]_vars

\* a feed with an entry in each generation beside another present feed
C18_Witness ==
    \E c \in DOMAIN event_sets :
        /\ Len(event_sets[c].previous) = 1
        /\ Len(event_sets[c].current) = 1
        /\ TotalSent(ComponentIds) = 2

(* ------------------------------- C19 ----------------------------------- *)
\* C19: within a feed the ids follow the send order without gaps or reuse:
\* the k-th entry ever sent has id k - 1 for as long as it is retained, the
\* next id is the number of entries ever sent, whatever update() calls went
\* by; and every id a sequence hands to a reader is higher than every id
\* the reader was handed before.
C19_IdsNow ==
    \A c \in DOMAIN event_sets :
        /\ event_sets[c].next_id = Len(sent[c])
        /\ \A i \in 1..Len(Events_retained(event_sets[c])) :
               LET instance == Events_retained(event_sets[c])[i]
               IN  /\ instance.id = prev_update[c] + i - 1
                   /\ sent[c][instance.id + 1].entity = instance.event.entity

C19_Step(r) ==
    Len(out'[r]) = Len(out[r]) + 1 =>
        \A d \in delivered[r] : out'[r][Len(out'[r])].item[2] > d

\* C19: ids follow the send order across update() calls, in the feed and in
\* what read_with_id() hands out
C19_IdsIncrease ==
    /\ []C19_IdsNow
    /\ [][\A r \in Readers :
             (Live(r) /\ unwrap(iter[r]).with_id) => C19_Step(r)]_vars

\* read_with_id() handed a reader id 0, and after an update() another
\* read_with_id() hands it id 1
C19_Witness ==
    \E r \in Readers :
        /\ Live(r) /\ unwrap(iter[r]).with_id
        /\ delivered[r] = {0, 1}
        /\ Ids(out[r]) = <<1>>
        /\ last_update[Type(r)] = 1

(* ------------------------------- C20 ----------------------------------- *)
\* r consumed a read() to its end between every two consecutive update() calls
KeepsUp(r) == pace[r] # "missed"
\* entries of type c whose send was followed by two update() calls
TwiceUpdated(c) == SubSeq(sent[c], 1, prev_update[c])
\* an item is handed to r only if its id was not handed to r before
C20_Once(r) ==
    Len(out'[r]) = Len(out[r]) + 1 => out'[r][Len(out'[r])].id \notin delivered[r]

\* C20 as stated: for a reader that keeps up, every entry sent for its type
\* is handed to it once and only once, and by the time the second update()
\* after the send runs.
C20_Original ==
    /\ [](\A r \in Readers :
             KeepsUp(r) =>
                 \A i \in 1..Len(TwiceUpdated(Type(r))) :
                     TwiceUpdated(Type(r))[i].id \in delivered[r])
    /\ [][\A r \in Readers : KeepsUp(r) => C20_Once(r)]_vars

\* C20 amended: for a reader that keeps up, every entry sent for its type
\* that the reader's clear() did not discard is handed to it by the time the
\* second update() after the send runs, and no entry is handed to it twice.
C20_NoLossKeepingUp ==
    /\ [](\A r \in Readers :
             KeepsUp(r) =>
                 \A i \in 1..Len(TwiceUpdated(Type(r))) :
                     \/ TwiceUpdated(Type(r))[i].id \in delivered[r]
                     \/ Discarded(r, TwiceUpdated(Type(r))[i]))
    /\ [][\A r \in Readers : KeepsUp(r) => C20_Once(r)]_vars

\* a reader that read between the two update() calls which expired both
\* entries of its type, and was handed both
C20_Witness ==
    \E r \in Readers :
        /\ KeepsUp(r)
        /\ Len(TwiceUpdated(Type(r))) = 2
        /\ delivered[r] = {0, 1}
        /\ cleared_before[r] = 0
        /\ Events_retained(event_sets[Type(r)]) = <<>>

=============================================================================
